---- MODULE Spec2Model ----
(***************************************************************************)
(* Model of the Adaptive Taxonomy Mapper: main.py's batch loop,            *)
(* InferenceEngine.map_story, Preprocessor, TaxonomyLoader and             *)
(* LLMArbiter (classify and _safe_parse_json).                             *)
(*                                                                         *)
(* Text is a sequence of chunks, each chunk a non-empty piece of text, so  *)
(* a text is empty exactly when its sequence is.  The chunk " " is         *)
(* whitespace.  A Python / JSON value is a record [t, v]: its type and its *)
(* payload (the text of a str, the digits of a number, the items of a      *)
(* list, nothing for None).                                                *)
(***************************************************************************)
EXTENDS Integers, Sequences, FiniteSets, TLC

VARIABLES
    pc,             \* main's position
    api_key,        \* os.getenv("GROQ_API_KEY"): "unset", "empty" or "set"
    allowed_labels, \* LLMArbiter.allowed_labels
    test_cases,     \* main's test_cases, once loaded
    idx,            \* number of cases the loop of main has finished
    results,        \* main's results list
    output,         \* outputs/results.json: every write made to it, in order
    requests,       \* requests.post calls issued so far
    token_log,      \* LLMArbiter.token_log
    usage_calls,    \* history: status-200 responses so far that reported usage
    last            \* history: the last map_story call (story, response, outcome)

vars == <<pc, api_key, allowed_labels, test_cases, idx, results, output,
          requests, token_log, usage_calls, last>>

----------------------------------------------------------------------------
(* Bounds *)

\* longest raw model output, in tokens
MaxLen == 4
\* most cases in test_cases.json
MaxCases == 2

----------------------------------------------------------------------------
(* Python values *)

PyStr(s) == [t |-> "str", v |-> s]
PyNone == [t |-> "none", v |-> <<>>]
PyNum(d) == [t |-> "num", v |-> <<d>>]
PyList(items) == [t |-> "list", v |-> items]

\* bool(x)
Truthy(x) ==
    CASE x.t = "str" -> x.v # <<>>
      [] x.t = "num" -> x.v # <<"0">>
      [] x.t = "list" -> x.v # <<>>
      [] OTHER -> FALSE

IsSpace(c) == c = " "

RECURSIVE lstrip(_)
lstrip(s) == IF s # <<>> /\ IsSpace(Head(s)) THEN lstrip(Tail(s)) ELSE s

RECURSIVE rstrip(_)
rstrip(s) ==
    IF s # <<>> /\ IsSpace(s[Len(s)]) THEN rstrip(SubSeq(s, 1, Len(s) - 1)) ELSE s

\* str.strip()
strip(s) == rstrip(lstrip(s))

----------------------------------------------------------------------------
(* Fixed texts of the program *)

Sentinel == <<"[UNMAPPED]">>

ParseFailureReasoning ==
    <<"Failed to parse JSON from model output; marking as [UNMAPPED] per Honesty rule.">>

UnexpectedFormatReasoning ==
    <<"Unexpected response format from Groq API; marking as [UNMAPPED].">>

CoercionNotice ==
    <<" ", "Model proposed a label outside the taxonomy; coerced to [UNMAPPED] to respect the Hierarchy rule.">>

GenericReasoning ==
    <<"Model did not provide a reasoning string; defaulted to a generic explanation.">>

NonFictionReasoning ==
    <<"Blurb appears to be instructional/non-fiction, so no honest match in the fiction taxonomy.">>

\* resp.text[:200]
ErrorTextLimit == 200

----------------------------------------------------------------------------
(* LLMArbiter._safe_parse_json                                             *)
(*                                                                         *)
(* A raw model output is a sequence of tokens: "{" and "}" are the brace   *)
(* characters, "w" is a stretch of prose without braces, "C" is the member *)
(* "category": <value> and "R" the member "reasoning": <value> (separating *)
(* commas included).  The values of the two members travel beside the      *)
(* text, in the response's fields category and reasoning; they hold no     *)
(* brace characters.                                                       *)

Tokens == {"{", "}", "w", "C", "R"}
Members == {"C", "R"}

\* str.find(c): 0-based index of the first c, -1 when there is none
find(s, c) ==
    IF \E i \in 1..Len(s) : s[i] = c
    THEN (CHOOSE i \in 1..Len(s) : s[i] = c /\ \A j \in 1..(i - 1) : s[j] # c) - 1
    ELSE -1

\* str.rfind(c): 0-based index of the last c, -1 when there is none
rfind(s, c) ==
    IF \E i \in 1..Len(s) : s[i] = c
    THEN (CHOOSE i \in 1..Len(s) : s[i] = c /\ \A j \in (i + 1)..Len(s) : s[j] # c) - 1
    ELSE -1

\* s[start:end] for 0 <= start, 0 <= end
slice(s, start, end) ==
    LET e == IF end > Len(s) THEN Len(s) ELSE end
    IN  IF start >= e THEN <<>> ELSE SubSeq(s, start + 1, e)

\* whether json.loads accepts the token sequence: one object, "{" members "}",
\* and nothing before or after it
json_loads_ok(s) ==
    /\ Len(s) >= 2
    /\ s[1] = "{"
    /\ s[Len(s)] = "}"
    /\ \A i \in 2..(Len(s) - 1) : s[i] \in Members

\* the dict json.loads returns for an accepted token sequence
json_loads(s, cat, reas) ==
    [keys |-> {"category" : i \in {j \in 1..Len(s) : s[j] = "C"}}
              \cup {"reasoning" : i \in {j \in 1..Len(s) : s[j] = "R"}},
     category |-> cat,
     reasoning |-> reas]

ParseFailure ==
    [keys |-> {"category", "reasoning"},
     category |-> PyStr(Sentinel),
     reasoning |-> PyStr(ParseFailureReasoning)]

_safe_parse_json(text, cat, reas) ==
    IF text.t # "str"
    THEN ParseFailure                      \* text.find raises AttributeError
    ELSE LET start == find(text.v, "{")
             end == rfind(text.v, "}") + 1
         IN  IF start = -1 \/ end <= start
             THEN ParseFailure             \* ValueError
             ELSE IF json_loads_ok(slice(text.v, start, end))
                  THEN json_loads(slice(text.v, start, end), cat, reas)
                  ELSE ParseFailure        \* json.JSONDecodeError

\* dict.get(key, default)
dict_get(d, key, default) ==
    IF key \in d.keys THEN d[key] ELSE default

----------------------------------------------------------------------------
(* LLMArbiter.classify *)

\* f"Groq API error {resp.status_code}: {resp.text[:200]}"
ApiErrorReasoning(resp) ==
    <<"Groq API error ", resp.status_code, ": ">> \o slice(resp.text, 0, ErrorTextLimit)

\* OutsideTaxonomy without the allow-list test: only a non-string is coerced
OutsideTaxonomy_TypeOnly(category, allowed) ==
    category.t # "str"

\* category not in self.allowed_labels and category != "[UNMAPPED]"
OutsideTaxonomy(category, allowed) ==
    /\ ~(category.t = "str" /\ category.v \in allowed)
    /\ category # PyStr(Sentinel)

\* the hallucination guard's reasoning: reasoning + extra, or extra alone
CoercedReasoning(reasoning) ==
    IF reasoning # <<>> THEN reasoning \o CoercionNotice ELSE CoercionNotice

\* FillReasoning without the fill-in
FillReasoning_Skipped(reasoning) == reasoning

\* if not reasoning: reasoning = <generic explanation>
FillReasoning(reasoning) ==
    IF reasoning = <<>> THEN GenericReasoning ELSE reasoning

\* the entry appended to token_log; cost in units of 0.00001 dollar
UsageEntry(u) ==
    [input_tokens |-> u.prompt_tokens,
     output_tokens |-> u.completion_tokens,
     total_tokens |-> u.total_tokens,
     cost |-> u.prompt_tokens * 5 + u.completion_tokens * 8]

Raise(exc, log) ==
    [raised |-> TRUE, exc |-> exc, category |-> PyNone, reasoning |-> PyNone,
     token_log |-> log]

Return(category, reasoning, log) ==
    [raised |-> FALSE, exc |-> "", category |-> category, reasoning |-> reasoning,
     token_log |-> log]

\* lines 128-156: parse, validate, log the usage, return
validate(resp, allowed, log) ==
    LET parsed == _safe_parse_json(resp.content, resp.category, resp.reasoning)
        category0 == dict_get(parsed, "category", PyStr(Sentinel))
        reasoning_raw == dict_get(parsed, "reasoning", PyNone)
        reasoning_or == IF Truthy(reasoning_raw) THEN reasoning_raw ELSE PyStr(<<>>)
    IN  IF reasoning_or.t # "str"
        THEN Raise("AttributeError", log)              \* no .strip() on it
        ELSE LET reasoning0 == strip(reasoning_or.v)
                 outside == OutsideTaxonomy(category0, allowed)
                 category == IF outside THEN PyStr(Sentinel) ELSE category0
                 reasoning1 == IF outside THEN CoercedReasoning(reasoning0)
                                          ELSE reasoning0
                 reasoning == FillReasoning(reasoning1)
             IN  CASE resp.usage.kind = "complete" ->
                        Return(category, PyStr(reasoning),
                               Append(log, UsageEntry(resp.usage)))
                   [] resp.usage.kind = "partial" ->
                        Raise("KeyError", log)         \* usage_data['prompt_tokens']
                   [] OTHER ->
                        Return(category, PyStr(reasoning), log)

\* the outcome of classify once requests.post has been called
classify(resp, allowed, log) ==
    IF resp.transport # "ok"
    THEN Raise(resp.transport, log)                    \* requests.post raises
    ELSE IF resp.status_code # "200"
    THEN Return(PyStr(Sentinel), PyStr(ApiErrorReasoning(resp)), log)
    ELSE IF resp.body # "json"
    THEN Raise("JSONDecodeError", log)                 \* resp.json() raises
    ELSE IF resp.shape # "ok"
    THEN Return(PyStr(Sentinel), PyStr(UnexpectedFormatReasoning), log)
    ELSE validate(resp, allowed, log)

----------------------------------------------------------------------------
(* Preprocessor                                                            *)
(*                                                                         *)
(* A blurb is a sequence of words; the separators between them (spaces,    *)
(* hyphens) are not kept, so blurb.strip() leaves a blurb as it is.        *)

\* re.IGNORECASE, on the words the model uses
Lower(w) ==
    CASE w = "How" -> "how"
      [] w = "Mix" -> "mix"
      [] w = "Recipe" -> "recipe"
      [] OTHER -> w

\* Preprocessor.NONFICTION_PATTERNS
NONFICTION_PATTERNS ==
    { <<"how", "to">>, <<"step", "by", "step">>, <<"ingredient">>, <<"ingredients">>,
      <<"recipe">>, <<"prep", "time">>, <<"bake", "at">>, <<"mix">>, <<"add">>,
      <<"degrees">> }

\* pattern.search(text)
search(pattern, words) ==
    \E i \in 1..Len(words) :
        /\ i + Len(pattern) - 1 <= Len(words)
        /\ \A k \in 1..Len(pattern) : Lower(words[i + k - 1]) = pattern[k]

\* "raise" (blurb.strip() on a value that is no str), TRUE or FALSE
is_obviously_nonfiction(blurb) ==
    IF blurb.t # "str" THEN "raise"
    ELSE IF \E p \in NONFICTION_PATTERNS : search(p, blurb.v) THEN "true"
    ELSE "false"

\* story.get(key, default): a key the story lacks holds Absent
Absent == [t |-> "absent", v |-> <<>>]
story_get(story, key, default) ==
    IF story[key] = Absent THEN default ELSE story[key]

\* ", ".join(tags_list) if tags_list else "None"; <<"raise">> when join raises
tags_text(tags_list) ==
    IF ~Truthy(tags_list) THEN <<"None">>
    ELSE IF tags_list.t \in {"list", "str"} THEN tags_list.v
    ELSE <<"raise">>

\* Preprocessor.build_context
build_context(story) ==
    LET blurb == story_get(story, "blurb", PyStr(<<>>))
        tags == tags_text(story_get(story, "user_tags", PyList(<<>>)))
    IN  IF blurb.t # "str" \/ tags = <<"raise">>
        THEN [raised |-> TRUE, text |-> <<>>]
        ELSE [raised |-> FALSE,
              text |-> <<"STORY BLURB:">> \o blurb.v
                       \o <<"USER TAGS (noisy hints):">> \o tags]

----------------------------------------------------------------------------
(* TaxonomyLoader                                                          *)
(*                                                                         *)
(* taxonomy.json is a sequence of top-level values, each a dict (a         *)
(* sequence of sub-category values) or not, each sub-category value a list *)
(* of labels or not.                                                       *)

RECURSIVE sub_leaves(_)
sub_leaves(subs) ==
    IF subs = <<>> THEN <<>>
    ELSE (IF Head(subs).list THEN Head(subs).labels ELSE <<>>) \o sub_leaves(Tail(subs))

RECURSIVE _extract_leaf_labels(_)
_extract_leaf_labels(taxonomy) ==
    IF taxonomy = <<>> THEN <<>>
    ELSE (IF Head(taxonomy).dict THEN sub_leaves(Head(taxonomy).items) ELSE <<>>)
         \o _extract_leaf_labels(Tail(taxonomy))

\* sorted(set(allowed_labels)): the labels without duplicates; their order serves
\* only the prompt's text
AllowedLabels(leaves) == { leaves[i] : i \in 1..Len(leaves) }

\* KeyMissing as "self.api_key is None": an empty key passes
KeyMissing_NoneOnly(key) == key = "unset"

\* not self.api_key
KeyMissing(key) == key # "set"

----------------------------------------------------------------------------
(* InferenceEngine.map_story *)

Status(category) ==
    IF category # PyStr(Sentinel) THEN "MAPPED" ELSE "UNMAPPED"

NoResult == [category |-> PyNone, reasoning |-> PyNone, status |-> ""]

\* whether map_story reaches requests.post for this story
IssuesRequest(story) ==
    /\ is_obviously_nonfiction(story_get(story, "blurb", PyStr(<<>>))) = "false"
    /\ ~build_context(story).raised

\* [raised, exc, result, issued, token_log]: resp is what requests.post brings
\* back (or raises) when the call is reached
map_story(story, resp, allowed, log) ==
    LET nonfiction == is_obviously_nonfiction(story_get(story, "blurb", PyStr(<<>>)))
    IN  IF nonfiction = "raise"
        THEN [raised |-> TRUE, exc |-> "AttributeError", result |-> NoResult,
              issued |-> 0, token_log |-> log]
        ELSE IF nonfiction = "true"
        THEN [raised |-> FALSE, exc |-> "",
              result |-> [category |-> PyStr(Sentinel),
                          reasoning |-> PyStr(NonFictionReasoning),
                          status |-> "UNMAPPED"],
              issued |-> 0, token_log |-> log]
        ELSE IF build_context(story).raised
        THEN [raised |-> TRUE, exc |-> "TypeError", result |-> NoResult,
              issued |-> 0, token_log |-> log]
        ELSE LET r == classify(resp, allowed, log)
             IN  IF r.raised
                 THEN [raised |-> TRUE, exc |-> r.exc, result |-> NoResult,
                       issued |-> 1, token_log |-> r.token_log]
                 ELSE [raised |-> FALSE, exc |-> "",
                       result |-> [category |-> r.category,
                                   reasoning |-> r.reasoning,
                                   status |-> Status(r.category)],
                       issued |-> 1, token_log |-> r.token_log]

----------------------------------------------------------------------------
(* Inputs: the files, the stories and what the remote service answers *)

LabelA == <<"Slasher">>
LabelB == <<"Slow-burn">>

NotDict == [dict |-> FALSE, items |-> <<>>]
NotList == [list |-> FALSE, labels |-> <<>>]
Dict(items) == [dict |-> TRUE, items |-> items]
List(labels) == [list |-> TRUE, labels |-> labels]

\* taxonomy.json, when it can be read
Taxonomies ==
    { <<NotDict, Dict(<<List(<<LabelA>>)>>)>>,
      <<Dict(<<NotList, List(<<LabelB, LabelA>>)>>)>>,
      <<Dict(<<List(<<LabelA>>)>>), Dict(<<List(<<LabelA, Sentinel>>)>>)>> }

BlurbValues ==
    { Absent, PyNone, PyStr(<<"the", "dragon", "wakes">>), PyStr(<<"How", "to", "bake">>) }

TagValues == { PyList(<<"romance">>), Absent }

Story(id, blurb, tags) == [id |-> id, blurb |-> blurb, user_tags |-> tags]

\* the case lists test_cases.json can hold: ids are the positions
RECURSIVE CaseLists(_)
CaseLists(n) ==
    IF n = 0 THEN { <<>> }
    ELSE LET shorter == CaseLists(n - 1)
         IN  shorter \cup
             { Append(cs, Story(Len(cs) + 1, b, t)) :
                 cs \in { c \in shorter : Len(c) = n - 1 },
                 b \in BlurbValues, t \in TagValues }

\* the raw model outputs of at most n tokens
RECURSIVE Texts(_)
Texts(n) ==
    IF n = 0 THEN { <<>> }
    ELSE LET shorter == Texts(n - 1)
         IN  shorter \cup
             { Append(s, k) : s \in { x \in shorter : Len(x) = n - 1 }, k \in Tokens }

CategoryValues == { PyStr(LabelA), PyStr(LabelB), PyStr(Sentinel), PyNum("5") }

ReasoningValues ==
    { PyStr(<<" ", "dark tone", " ">>), PyStr(<<" ">>), PyStr(<<>>), PyNone,
      PyNum("5") }

\* the "usage" of a response body: absent, an empty object, an object without
\* prompt_tokens, or all three counters
NoUsage == [kind |-> "absent", prompt_tokens |-> 0, completion_tokens |-> 0,
            total_tokens |-> 0]
EmptyUsage == [NoUsage EXCEPT !.kind = "empty"]
PartialUsage == [NoUsage EXCEPT !.kind = "partial", !.total_tokens = 5]
CompleteUsage == [kind |-> "complete", prompt_tokens |-> 3, completion_tokens |-> 2,
                  total_tokens |-> 5]
Usages == { NoUsage, EmptyUsage, PartialUsage, CompleteUsage }

\* a response never looked at: no request was issued
NoResp ==
    [transport |-> "none", status_code |-> "", text |-> <<>>, body |-> "",
     shape |-> "", content |-> PyNone, category |-> PyNone, reasoning |-> PyNone,
     usage |-> NoUsage]

\* requests.post raises, or the service answers with an error status
FailedResps ==
    { [NoResp EXCEPT !.transport = "Timeout"],
      [NoResp EXCEPT !.transport = "ConnectionError"],
      [NoResp EXCEPT !.transport = "ok", !.status_code = "500"],
      [NoResp EXCEPT !.transport = "ok", !.status_code = "429",
                     !.text = <<"rate limit">>] }

\* status 200 with a body that is no JSON, or JSON without
\* choices[0].message.content
OddResps ==
    { [NoResp EXCEPT !.transport = "ok", !.status_code = "200", !.body = "html"] }
    \cup { [NoResp EXCEPT !.transport = "ok", !.status_code = "200", !.body = "json",
                          !.shape = "no choices", !.usage = u] : u \in Usages }

\* status 200 with a completion: its content, the values of the members the
\* content may name, and the usage reported
Completion(content, cat, reas, usage) ==
    [NoResp EXCEPT !.transport = "ok", !.status_code = "200", !.body = "json",
                   !.shape = "ok", !.content = content, !.category = cat,
                   !.reasoning = reas, !.usage = usage]

\* the values a member of the text can have; a text without the member has none
MemberValues(x, member, values) ==
    IF \E i \in 1..Len(x) : x[i] = member THEN values ELSE { PyNone }

\* the answers without a text content
TextlessResps ==
    FailedResps \cup OddResps
    \cup { Completion(PyNone, PyNone, PyNone, u) : u \in Usages }

\* the answers the batch run draws from
SampleResps ==
    FailedResps \cup OddResps
    \cup { Completion(PyNone, PyNone, PyNone, EmptyUsage),
           Completion(PyStr(<<"w">>), PyNone, PyNone, NoUsage),
           Completion(PyStr(<<"{", "C", "}">>), PyStr(LabelA), PyNone, PartialUsage) }
    \cup { Completion(PyStr(<<"w", "{", "C", "R", "}">>), c, r, u) :
             c \in { PyStr(LabelA), PyStr(LabelB) },
             r \in { PyStr(<<" ", "dark tone", " ">>), PyNum("5") },
             u \in { NoUsage, CompleteUsage } }

----------------------------------------------------------------------------
(* State machine *)

\* the last map_story call: what the pre-filter said of its story, the answer to
\* its request, and how it ended
NoCall ==
    [called |-> FALSE, nonfiction |-> "", resp |-> NoResp,
     raised |-> FALSE, exc |-> "", result |-> NoResult, issued |-> 0]

CallRecord(story, resp, o) ==
    [called |-> TRUE,
     nonfiction |-> is_obviously_nonfiction(story_get(story, "blurb", PyStr(<<>>))),
     resp |-> resp, raised |-> o.raised,
     exc |-> o.exc, result |-> o.result, issued |-> o.issued]

\* a status-200 response whose JSON body reports usage
ReportsUsage(resp) ==
    /\ resp.transport = "ok"
    /\ resp.status_code = "200"
    /\ resp.body = "json"
    /\ resp.usage.kind = "complete"

Init ==
    /\ pc = "start"
    /\ api_key \in {"unset", "empty", "set"}
    /\ allowed_labels = {}
    /\ test_cases = <<>>
    /\ idx = 0
    /\ results = <<>>
    /\ output = <<>>
    /\ requests = 0
    /\ token_log = <<>>
    /\ usage_calls = 0
    /\ last = NoCall

\* main, step 1: engine = InferenceEngine(TAXONOMY_PATH)
InitializeEngine ==
    /\ pc = "start"
    /\ \E readable \in BOOLEAN, taxonomy \in Taxonomies :
          IF ~readable
          THEN /\ pc' = "aborted_config"           \* open() raises
               /\ UNCHANGED allowed_labels
          ELSE /\ allowed_labels' = AllowedLabels(_extract_leaf_labels(taxonomy))
               /\ pc' = IF KeyMissing(api_key) THEN "aborted_config"   \* RuntimeError
                                               ELSE "engine_ready"
    /\ UNCHANGED <<api_key, test_cases, idx, results, output, requests, token_log,
                   usage_calls, last>>

\* main, step 2: test_cases = load_test_cases(TEST_CASES_PATH)
LoadTestCases ==
    /\ pc = "engine_ready"
    /\ \E readable \in BOOLEAN, cases \in CaseLists(MaxCases) :
          IF ~readable
          THEN /\ pc' = "aborted_config"
               /\ UNCHANGED test_cases
          ELSE /\ test_cases' = cases
               /\ pc' = "loop"
    /\ UNCHANGED <<api_key, allowed_labels, idx, results, output, requests, token_log,
                   usage_calls, last>>

\* main, step 3: one turn of the loop, engine.map_story(case) included
ProcessCase ==
    /\ pc = "loop"
    /\ idx < Len(test_cases)
    /\ LET case == test_cases[idx + 1]
       IN  \E resp \in (IF IssuesRequest(case) THEN SampleResps ELSE {NoResp}) :
             \E o \in { map_story(case, resp, allowed_labels, token_log) } :
                 /\ last' = CallRecord(case, resp, o)
                 /\ requests' = requests + o.issued
                 /\ token_log' = o.token_log
                 /\ usage_calls' = usage_calls + (IF ReportsUsage(resp) THEN 1 ELSE 0)
                 /\ IF o.raised
                    THEN /\ pc' = "aborted_case"   \* the exception leaves main
                         /\ UNCHANGED <<idx, results>>
                    ELSE /\ results' = Append(results,
                                          [id |-> case.id,
                                           user_tags |-> case.user_tags,
                                           blurb |-> case.blurb,
                                           category |-> o.result.category,
                                           reasoning |-> o.result.reasoning,
                                           status |-> o.result.status])
                         /\ idx' = idx + 1
                         /\ pc' = "loop"
    /\ UNCHANGED <<api_key, allowed_labels, test_cases, output>>

\* main, step 4: json.dump(results, f)
SaveResults ==
    /\ pc = "loop"
    /\ idx = Len(test_cases)
    /\ output' = Append(output, results)
    /\ pc' = "done"
    /\ UNCHANGED <<api_key, allowed_labels, test_cases, idx, results, requests,
                   token_log, usage_calls, last>>

Next == InitializeEngine \/ LoadTestCases \/ ProcessCase \/ SaveResults

Spec == Init /\ [][Next]_vars

----------------------------------------------------------------------------
(* One map_story call on a constructed engine, over every story and every *)
(* answer of at most MaxLen tokens                                        *)

\* a story for each way the pre-processing of map_story can end
GuardStories ==
    { Story(1, PyStr(<<"the", "dragon", "wakes">>), PyList(<<"romance">>)),
      Story(1, PyStr(<<"a", "Recipe">>), PyList(<<>>)),
      Story(1, PyNone, PyList(<<"romance">>)) }

GuardInit ==
    /\ pc = "engine_ready"
    /\ api_key = "set"
    /\ allowed_labels \in { AllowedLabels(_extract_leaf_labels(t)) : t \in Taxonomies }
    /\ test_cases = <<>>
    /\ idx = 0
    /\ results = <<>>
    /\ output = <<>>
    /\ requests = 0
    /\ token_log = <<>>
    /\ usage_calls = 0
    /\ last = NoCall

\* the effect of engine.map_story(story) when the remote call, if reached,
\* brings back resp
Call(story, resp) ==
    \E o \in { map_story(story, resp, allowed_labels, token_log) } :
        /\ last' = CallRecord(story, resp, o)
        /\ requests' = requests + o.issued
        /\ token_log' = o.token_log
        /\ usage_calls' = usage_calls + (IF ReportsUsage(resp) THEN 1 ELSE 0)
        /\ pc' = IF o.raised THEN "raised" ELSE "returned"

MapStory ==
    /\ pc = "engine_ready"
    /\ \E story \in GuardStories :
          IF ~IssuesRequest(story)
          THEN Call(story, NoResp)
          ELSE \/ \E resp \in TextlessResps : Call(story, resp)
               \/ \E x \in Texts(MaxLen) :
                    \E c \in MemberValues(x, "C", CategoryValues),
                       r \in MemberValues(x, "R", ReasoningValues),
                       u \in { NoUsage, CompleteUsage } :
                         Call(story, Completion(PyStr(x), c, r, u))
    /\ UNCHANGED <<api_key, allowed_labels, test_cases, idx, results, output>>

GuardNext == MapStory

GuardSpec == GuardInit /\ [][GuardNext]_vars

----------------------------------------------------------------------------
(* Properties *)

Returned == last.called /\ ~last.raised

\* the last call reached the remote service and got a completion back
GotCompletion ==
    /\ last.called
    /\ last.issued = 1
    /\ last.resp.transport = "ok"
    /\ last.resp.status_code = "200"
    /\ last.resp.body = "json"
    /\ last.resp.shape = "ok"

IsPrefix(p, s) == Len(p) <= Len(s) /\ SubSeq(s, 1, Len(p)) = p
IsSuffix(p, s) == Len(p) <= Len(s) /\ SubSeq(s, Len(s) - Len(p) + 1, Len(s)) = p

IsNonEmptyStr(x) == x.t = "str" /\ x.v # <<>>

InTaxonomy(category) == category.t = "str" /\ category.v \in allowed_labels

\* C1, as claimed: every result map_story returns has status MAPPED exactly when
\* its category is one of the allowed leaf labels, and status UNMAPPED exactly
\* when its category is the sentinel.
C1_StatusIffAllowed ==
    Returned =>
        /\ (last.result.status = "MAPPED") <=> InTaxonomy(last.result.category)
        /\ (last.result.status = "UNMAPPED") <=> (last.result.category = PyStr(Sentinel))

\* C1, amended: every result map_story returns has status MAPPED exactly when its
\* category is an allowed leaf label other than the sentinel, and status UNMAPPED
\* exactly when its category is the sentinel; it has one of the two.
C1_StatusIffLabel ==
    Returned =>
        /\ last.result.status \in {"MAPPED", "UNMAPPED"}
        /\ (last.result.status = "MAPPED") <=>
              (InTaxonomy(last.result.category) /\ last.result.category # PyStr(Sentinel))
        /\ (last.result.status = "UNMAPPED") <=> (last.result.category = PyStr(Sentinel))

\* a model answer naming an allowed label came back as MAPPED, under a taxonomy
\* that lists the sentinel among its leaves
C1_Witness ==
    /\ Returned
    /\ GotCompletion
    /\ last.result.status = "MAPPED"
    /\ Sentinel \in allowed_labels

\* C2: whatever the raw model output, the parse-and-validate steps of classify
\* return a category and a reasoning and raise nothing.
C2_GuardTotal ==
    (GotCompletion /\ last.resp.usage.kind # "partial") =>
        /\ ~last.raised
        /\ last.result.category.t = "str"
        /\ last.result.reasoning.t = "str"

\* C3: when the remote call fails in transport (timeout, connection error,
\* non-200 status), map_story returns an UNMAPPED result with the sentinel and a
\* non-empty reasoning, and nothing is raised.
C3_TransportFailureUnmapped ==
    (/\ last.called
     /\ last.issued = 1
     /\ \/ last.resp.transport \in {"Timeout", "ConnectionError"}
        \/ last.resp.transport = "ok" /\ last.resp.status_code # "200") =>
        /\ ~last.raised
        /\ last.result.category = PyStr(Sentinel)
        /\ IsNonEmptyStr(last.result.reasoning)
        /\ last.result.status = "UNMAPPED"

\* the last call met one of the failures of a single case: a null blurb, a
\* transport failure, or a status-200 body that is no JSON
CaseFailure ==
    \/ last.nonfiction = "raise"
    \/ last.resp.transport \in {"Timeout", "ConnectionError"}
    \/ last.resp.transport = "ok" /\ last.resp.status_code = "200"
          /\ last.resp.body # "json"

\* C4: no failure of a single case aborts the run; the loop takes the cases in
\* input order, one record each, and the finished run has written the log once,
\* with one record for every case.
C4_BatchCompletes ==
    /\ ~(pc = "aborted_case" /\ CaseFailure)
    /\ Len(results) = idx
    /\ \A k \in 1..Len(results) : results[k].id = test_cases[k].id
    /\ pc \in {"start", "engine_ready", "loop", "aborted_config"} => output = <<>>
    /\ pc = "done" => (output = <<results>> /\ Len(results) = Len(test_cases))

\* C5: a map_story call issues no remote request when the pre-filter says the
\* blurb is non-fiction, and exactly one otherwise.
C5_RequestsPerCase ==
    last.called => last.issued = (IF last.nonfiction = "true" THEN 0 ELSE 1)

\* the model output of the last call parsed to an object
ParsedObject ==
    /\ GotCompletion
    /\ last.resp.content.t = "str"
    /\ LET text == last.resp.content.v
       IN  /\ find(text, "{") # -1
           /\ json_loads_ok(slice(text, find(text, "{"), rfind(text, "}") + 1))

ParsedDict ==
    _safe_parse_json(last.resp.content, last.resp.category, last.resp.reasoning)

\* C6: a model output that parses to an object whose category is neither the
\* sentinel nor an allowed label comes back as the sentinel, UNMAPPED, with a
\* reasoning that ends in the coercion notice and starts with the model's own
\* reasoning, trimmed, when it gave one.
C6_CoercionKeepsReasoning ==
    (/\ ParsedObject
     /\ OutsideTaxonomy(dict_get(ParsedDict, "category", PyStr(Sentinel)), allowed_labels)) =>
        /\ ~last.raised
        /\ last.result.category = PyStr(Sentinel)
        /\ last.result.status = "UNMAPPED"
        /\ last.result.reasoning.t = "str"
        /\ IsSuffix(CoercionNotice, last.result.reasoning.v)
        /\ LET given == dict_get(ParsedDict, "reasoning", PyNone)
           IN  Truthy(given) =>
                   /\ given.t = "str"
                   /\ IsPrefix(strip(given.v), last.result.reasoning.v)

\* C7: every result map_story (and so classify) returns carries a reasoning that
\* is a non-empty string.
C7_ReasoningNonEmpty ==
    Returned => IsNonEmptyStr(last.result.reasoning)

\* a valid object without a usable reasoning came back with the generic one
C7_Witness ==
    /\ Returned
    /\ ParsedObject
    /\ ~Truthy(dict_get(ParsedDict, "reasoning", PyNone))
    /\ last.result.reasoning = PyStr(GenericReasoning)

\* C8: with GROQ_API_KEY unset or empty the run never gets past engine
\* initialisation: no case is loaded or processed, no request is issued and
\* nothing is written.
C8_NoKeyAbortsBeforeCases ==
    api_key \in {"unset", "empty"} =>
        /\ pc \in {"start", "aborted_config"}
        /\ test_cases = <<>>
        /\ idx = 0
        /\ results = <<>>
        /\ ~last.called
        /\ requests = 0
        /\ output = <<>>

\* the taxonomy was read and the empty key stopped the run
C8_Witness ==
    /\ api_key = "empty"
    /\ pc = "aborted_config"
    /\ allowed_labels # {}

\* the first "{" members "}" span of a text: where it starts and ends, 1-based
HasObject(x) ==
    \E i \in 1..Len(x), j \in 1..Len(x) :
        i < j /\ json_loads_ok(SubSeq(x, i, j))

FirstObject(x) ==
    LET i == CHOOSE a \in 1..Len(x) :
                 /\ \E b \in 1..Len(x) : a < b /\ json_loads_ok(SubSeq(x, a, b))
                 /\ \A c \in 1..(a - 1) :
                       ~\E b \in 1..Len(x) : c < b /\ json_loads_ok(SubSeq(x, c, b))
        j == CHOOSE b \in 1..Len(x) : i < b /\ json_loads_ok(SubSeq(x, i, b))
    IN  SubSeq(x, i, j)

\* C9: when the raw text holds a well-formed object, with prose (braces included)
\* before or after it, the result is the one the first such object alone gives.
C9_FirstObjectExtracted ==
    (/\ GotCompletion
     /\ ~last.raised
     /\ last.resp.content.t = "str"
     /\ HasObject(last.resp.content.v)) =>
        LET alone == validate([last.resp EXCEPT
                                  !.content = PyStr(FirstObject(last.resp.content.v))],
                              allowed_labels, <<>>)
        IN  ~alone.raised =>
                /\ last.result.category = alone.category
                /\ last.result.reasoning = alone.reasoning

\* C10: while the run goes on, the length of token_log is the number of
\* status-200 responses so far that reported usage.
C10_LogCountsUsageCalls ==
    pc # "aborted_case" => Len(token_log) = usage_calls

====
